---- MODULE Spec2Model ----
(***************************************************************************)
(* Model of dind.py: a Streamlit panel over a Docker engine.  Every rerun  *)
(* of main() is one render pass; the pass is split at the points where it  *)
(* talks to a backend, and the engine (reachability, container exit) moves *)
(* between those points.                                                   *)
(***************************************************************************)
EXTENDS Integers, Sequences, FiniteSets, TLC

\* ------------------------------------------------------------------ bounds
MaxContainers == 2      \* container ids the engine ever hands out
MaxSearchLen == 2       \* longest text typed into "Search container by name"

\* ------------------------------------------------------------- vocabulary
TCP == "Local Docker TCP"
SSH == "SSH to Remote Docker"
Modes == {TCP, SSH}

DEFAULT_DOCKER_HOST == "tcp://localhost:2375"
URIs == {DEFAULT_DOCKER_HOST, "tcp://10.0.0.2:2375"}

Unbound == -1           \* the local name `client` was never assigned
None == 0               \* Python None
Absent == -1            \* no cache entry

Alphabet == {"a", "A", "b", "B"}
LowerChar(c) == CASE c = "A" -> "a" [] c = "B" -> "b" [] OTHER -> c

RECURSIVE SeqsUpTo(_)
SeqsUpTo(n) ==
    IF n = 0 THEN {<< >>}
    ELSE LET S == SeqsUpTo(n - 1)
         IN  S \cup {Append(s, c) : s \in {t \in S : Len(t) = n - 1}, c \in Alphabet}

Searches == SeqsUpTo(MaxSearchLen)

\* names of containers that exist before the panel starts (any case)
InitNames == {<<"a", "B", "A">>}
\* the engine's generated name for a container started without --name
AutoName(id) == <<"b">> \o [i \in 1..id |-> "a"]

\* image references: what the registry serves, and what a user may type
Registry == {<<"a">>}
ImageInputs == Registry \cup {<<"B">>}
ImageSearches == {<< >>, <<"a">>, <<"b">>}

Lifecycle == {"start", "stop", "restart", "remove"}
MutatingIntents == Lifecycle \cup {"create_and_run", "pull_image", "remove_image"}
DispatcherSteps == MutatingIntents \cup
    {"list_containers", "inspect", "stats", "list_images", "logs", "exec"}

VARIABLES
    reach,          \* engine: is the daemon behind each URI answering
    engContainers,  \* engine: the listing of all containers, stopped included
    engImages,      \* engine: the listing of local images, by tag
    nextId,         \* engine: next container id
    cache,          \* st.cache_resource store of get_docker_client_via_tcp
    connUri,        \* DockerClient objects ever built; connUri[k] is k's base_url
    pc,             \* position of the running pass of main()
    mode,           \* the radio choice of the pass
    client,         \* main()'s local `client`
    clicked,        \* a button already returned True in this pass
    containers,     \* main()'s local `containers`
    search,         \* main()'s local `search`
    filtered,       \* main()'s local `filtered`
    container,      \* main()'s local `container`, by id (0: none selected)
    images,         \* main()'s local `images`
    uncaught,       \* the step whose exception left main(), or "none"
    result,         \* what the intent of the latest step showed the user
    apiCall,        \* the engine call of the latest step
    sshCall,        \* the run_ssh_command of the latest step
    view,           \* what the latest step rendered in the Logs or Exec tab
    connectCall,    \* the get_docker_client_via_tcp call of the latest step
    returned,       \* history: per URI, everything connect_tcp returned
    reachRet,       \* history: per URI, what it returned while reachable
    removedOk       \* history: ids whose Remove reported ok

vars == <<reach, engContainers, engImages, nextId, cache, connUri, pc, mode,
          client, clicked, containers, search, filtered, container, images,
          uncaught, result, apiCall, sshCall, view, connectCall, returned,
          reachRet, removedOk>>

engineVars == <<reach, engContainers, engImages, nextId>>
histVars == <<returned, reachRet, removedOk>>
localVars == <<mode, client, clicked, containers, search, filtered, container, images>>

NoResult == [intent |-> "none", res |-> "none"]
NoCall == [op |-> "none", target |-> 0, up |-> FALSE, status |-> "none"]
NoConnect == [uri |-> "", how |-> "none", up |-> FALSE, res |-> Unbound]
NoSsh == [ran |-> FALSE, connected |-> FALSE, output |-> << >>, error |-> << >>,
          exc |-> "", result |-> << >>]

\* ------------------------------------------------------------------ engine
Running == "running"
Exited == "exited"

Ids(cs) == {cs[i].id : i \in DOMAIN cs}
Exists(cs, id) == id \in Ids(cs)
Get(cs, id) == cs[CHOOSE i \in DOMAIN cs : cs[i].id = id]
SetStatus(cs, id, st) ==
    [i \in DOMAIN cs |-> IF cs[i].id = id THEN [cs[i] EXCEPT !.status = st] ELSE cs[i]]
Delete(cs, id) == SelectSeq(cs, LAMBDA c : c.id # id)

InitListings ==
    {<< >>} \cup
    {<<[id |-> 1, name |-> n, status |-> st, image |-> <<"a">>]>> :
        n \in InitNames, st \in {Running, Exited}}

\* what a step that shows no result, makes no call and renders no tab leaves
Quiet ==
    /\ result' = NoResult
    /\ apiCall' = NoCall
    /\ sshCall' = NoSsh
    /\ view' = "none"

Init ==
    /\ reach \in [URIs -> BOOLEAN]
    /\ engContainers \in InitListings
    /\ engImages = IF engContainers = << >> THEN << >> ELSE <<(<<"a">>)>>
    /\ nextId = Len(engContainers) + 1
    /\ cache = [u \in URIs |-> Absent]
    /\ connUri = << >>
    /\ pc = "idle"
    /\ mode = TCP
    /\ client = Unbound
    /\ clicked = FALSE
    /\ containers = << >>
    /\ search = << >>
    /\ filtered = << >>
    /\ container = 0
    /\ images = << >>
    /\ uncaught = "none"
    /\ result = NoResult
    /\ apiCall = NoCall
    /\ sshCall = NoSsh
    /\ view = "none"
    /\ connectCall = NoConnect
    /\ returned = [u \in URIs |-> {}]
    /\ reachRet = [u \in URIs |-> {}]
    /\ removedOk = {}

\* The daemon behind a URI stops or starts answering.
EngineFlip(u) ==
    /\ pc # "done"
    /\ reach' = [reach EXCEPT ![u] = ~reach[u]]
    /\ UNCHANGED <<engContainers, engImages, nextId, cache, connUri, pc, localVars,
                   uncaught, result, apiCall, sshCall, view, connectCall, histVars>>

\* A running container's process ends by itself.
ContainerExits(id) ==
    /\ pc # "done"
    /\ Exists(engContainers, id)
    /\ Get(engContainers, id).status = Running
    /\ engContainers' = SetStatus(engContainers, id, Exited)
    /\ UNCHANGED <<reach, engImages, nextId, cache, connUri, pc, localVars,
                   uncaught, result, apiCall, sshCall, view, connectCall, histVars>>

\* --------------------------------------------------------------- connector
\* a cache that ignores the argument: one entry for every docker_host
CacheKeyIgnoresUri(docker_host) == DEFAULT_DOCKER_HOST

\* st.cache_resource keys an entry by the function's arguments: docker_host.
CacheKey(docker_host) == docker_host

\* The exceptions an unreachable daemon can raise from DockerClient()/ping():
\* a DockerException, or (older client libraries) the transport's own error.
ConnectFailures == {"DockerException", "OtherException"}

\* the pass goes on without a client
NeverStopsPass(c) == FALSE

\* main()'s `if not client: st.stop()`
StopsPass(c) == c = None

\* The pass ends: by st.stop(), by an uncaught exception, or at the last line.
EndPass(fault) ==
    /\ pc' = "done"
    /\ uncaught' = fault

\* A rerun of main() starts: the radio's value is read (line 53).
BeginPass ==
    /\ pc = "idle"
    /\ \E m \in Modes : mode' = m
    /\ pc' = "connect"
    /\ UNCHANGED <<engineVars, cache, connUri, client, clicked, containers,
                   search, filtered, container, images, uncaught, result,
                   apiCall, sshCall, view, connectCall, histVars>>

\* main() has returned: its locals and what it rendered are gone.
Return ==
    /\ pc = "done"
    /\ pc' = "idle"
    /\ mode' = TCP
    /\ client' = Unbound
    /\ clicked' = FALSE
    /\ containers' = << >>
    /\ search' = << >>
    /\ filtered' = << >>
    /\ container' = 0
    /\ images' = << >>
    /\ uncaught' = "none"
    /\ connectCall' = NoConnect
    /\ Quiet
    /\ UNCHANGED <<engineVars, cache, connUri, histVars>>

\* lines 55-59 with get_docker_client_via_tcp (lines 20-28)
ConnectTcp ==
    /\ pc = "connect"
    /\ mode = TCP
    /\ \E docker_host \in URIs :
        LET k == CacheKey(docker_host) IN
        IF cache[k] # Absent
        THEN \* memoized: the function body does not run
             /\ client' = cache[k]
             /\ connectCall' = [uri |-> docker_host, how |-> "cache",
                                up |-> reach[docker_host], res |-> cache[k]]
             /\ returned' = [returned EXCEPT ![docker_host] = @ \cup {cache[k]}]
             /\ reachRet' = IF reach[docker_host]
                            THEN [reachRet EXCEPT ![docker_host] = @ \cup {cache[k]}]
                            ELSE reachRet
             /\ IF StopsPass(cache[k]) THEN EndPass("none")
                ELSE pc' = "list" /\ uncaught' = uncaught
             /\ UNCHANGED <<cache, connUri>>
        ELSE IF reach[docker_host]
        THEN \* DockerClient(base_url) and ping() succeed
             LET c == Len(connUri) + 1 IN
             /\ connUri' = Append(connUri, docker_host)
             /\ cache' = [cache EXCEPT ![k] = c]
             /\ client' = c
             /\ connectCall' = [uri |-> docker_host, how |-> "handshake",
                                up |-> TRUE, res |-> c]
             /\ returned' = [returned EXCEPT ![docker_host] = @ \cup {c}]
             /\ reachRet' = [reachRet EXCEPT ![docker_host] = @ \cup {c}]
             /\ IF StopsPass(c) THEN EndPass("none")
                ELSE pc' = "list" /\ uncaught' = uncaught
        ELSE \E e \in ConnectFailures :
             IF e = "DockerException"
             THEN \* caught: st.error, return None; the None is what is cached
                  /\ cache' = [cache EXCEPT ![k] = None]
                  /\ client' = None
                  /\ connectCall' = [uri |-> docker_host, how |-> "handshake",
                                     up |-> FALSE, res |-> None]
                  /\ returned' = [returned EXCEPT ![docker_host] = @ \cup {None}]
                  /\ IF StopsPass(None) THEN EndPass("none")
                     ELSE pc' = "list" /\ uncaught' = uncaught
                  /\ UNCHANGED <<connUri, reachRet>>
             ELSE \* not a DockerException: leaves the function and main()
                  /\ EndPass("connect")
                  /\ connectCall' = [uri |-> docker_host, how |-> "handshake",
                                     up |-> FALSE, res |-> Unbound]
                  /\ UNCHANGED <<cache, connUri, client, returned, reachRet>>
    /\ Quiet
    /\ UNCHANGED <<engineVars, mode, clicked, containers, search, filtered,
                   container, images, removedOk>>

\* run_ssh_command (lines 31-43).  `remote` is what the host does with the
\* session: connected says whether ssh.connect returned, raised names an
\* exception raised after it (by exec_command, read or decode), output and
\* error are the decoded streams.  Texts are sequences of pieces.
ExcTexts == {"timed out", "Authentication failed."}
StreamTexts(t) == {<< >>, <<t>>}
Remotes ==
    [connected : BOOLEAN, raised : {"", "channel closed"}, exc : ExcTexts,
     output : StreamTexts("CONTAINER ID"),
     error : StreamTexts("docker: command not found")]

\* the streams the other way round: error if error else output
SshReturnErrorFirst(output, error) == IF error # << >> THEN error ELSE output

\* line 41: return output if output else error
SshReturn(output, error) == IF output # << >> THEN output ELSE error

\* line 43
SshError(e) == <<"SSH connection error: ", e>>

run_ssh_command(remote) ==
    IF ~remote.connected THEN SshError(remote.exc)
    ELSE IF remote.raised # "" THEN SshError(remote.raised)
    ELSE SshReturn(remote.output, remote.error)

\* lines 61-70
ConnectSsh ==
    /\ pc = "connect"
    /\ mode # TCP
    /\ \/ UNCHANGED clicked /\ sshCall' = NoSsh
       \/ \E remote \in Remotes :
            /\ clicked' = TRUE
            /\ sshCall' = [ran |-> TRUE, connected |-> remote.connected,
                           output |-> remote.output, error |-> remote.error,
                           exc |-> IF remote.connected THEN remote.raised ELSE remote.exc,
                           result |-> run_ssh_command(remote)]
    /\ pc' = "list"
    /\ result' = NoResult
    /\ apiCall' = NoCall
    /\ view' = "none"
    /\ connectCall' = NoConnect
    /\ UNCHANGED <<engineVars, cache, connUri, mode, client, containers, search,
                   filtered, container, images, uncaught, histVars>>

\* -------------------------------------------------------------- dispatcher
\* What using `client` for an engine call raises before the engine answers.
ApiFault(c) ==
    IF c = Unbound THEN "UnboundLocalError"
    ELSE IF c = None THEN "AttributeError"
    ELSE IF ~reach[connUri[c]] THEN "ConnectionError"
    ELSE ""

\* A request leaves the process only through a DockerClient object.
Sent(c, op, target) ==
    IF c \in DOMAIN connUri
    THEN [op |-> op, target |-> target, up |-> reach[connUri[c]],
          status |-> IF Exists(engContainers, target)
                     THEN Get(engContainers, target).status ELSE "none"]
    ELSE NoCall

\* the tabs ask the engine whatever the mode
AnyModeIsTcp(m) == TRUE

\* the test `mode == "Local Docker TCP"` of lines 78, 125, 149, 161
IsTcp(m) == m = TCP

Lower(s) == [i \in DOMAIN s |-> LowerChar(s[i])]

\* Python's `s in t` on strings
Contains(s, t) ==
    \E i \in 0..(Len(t) - Len(s)) : SubSeq(t, i + 1, i + Len(s)) = s

\* the name compared as it is spelled: search.lower() in c.name
FilterNameAsSpelled(cs, s) ==
    IF s # << >>
    THEN SelectSeq(cs, LAMBDA c : Contains(Lower(s), c.name))
    ELSE cs

\* line 81
Filter(cs, s) ==
    IF s # << >>
    THEN SelectSeq(cs, LAMBDA c : Contains(Lower(s), Lower(c.name)))
    ELSE cs

\* lines 77-81
ListContainers ==
    /\ pc = "list"
    /\ IF IsTcp(mode)
       THEN /\ apiCall' = Sent(client, "list_containers", 0)
            /\ IF ApiFault(client) # ""
               THEN /\ EndPass("list_containers")
                    /\ UNCHANGED <<containers, search, filtered>>
               ELSE /\ containers' = engContainers
                    /\ \E s \in Searches :
                         /\ search' = s
                         /\ filtered' = Filter(containers', s)
                    /\ pc' = "panel"
                    /\ UNCHANGED uncaught
       ELSE /\ containers' = << >>
            /\ \E s \in Searches :
                 /\ search' = s
                 /\ filtered' = Filter(containers', s)
            /\ pc' = "panel"
            /\ apiCall' = NoCall
            /\ UNCHANGED uncaught
    /\ result' = NoResult
    /\ sshCall' = NoSsh
    /\ connectCall' = NoConnect
    /\ view' = "none"
    /\ UNCHANGED <<engineVars, cache, connUri, mode, client, clicked, container,
                   images, histVars>>

\* lines 83-89 and 108-109: the select box, and container.image, which asks
\* the engine for the image of the selected container.  search and filtered
\* are not read after line 86 and are cleared here.
SelectContainer ==
    /\ pc = "panel"
    /\ search' = << >>
    /\ filtered' = << >>
    /\ IF filtered # << >>
       THEN \E i \in DOMAIN filtered :
            /\ container' = filtered[i].id
            /\ apiCall' = Sent(client, "inspect", 0)
            /\ IF ApiFault(client) # ""
                  \/ \A j \in DOMAIN engImages : engImages[j] # filtered[i].image
               THEN EndPass("inspect")
               ELSE pc' = "buttons" /\ UNCHANGED uncaught
       ELSE /\ pc' = "create"
            /\ apiCall' = NoCall
            /\ UNCHANGED <<container, uncaught>>
    /\ result' = NoResult
    /\ sshCall' = NoSsh
    /\ connectCall' = NoConnect
    /\ view' = "none"
    /\ UNCHANGED <<engineVars, cache, connUri, mode, client, clicked, containers,
                   images, histVars>>

\* What the engine does with a lifecycle request for an existing container:
\* start and stop of a container already in that state answer 304, which the
\* client library takes as success; removing a running container needs force.
EngineApply(cs, op, id, force) ==
    CASE op = "start"   -> [ok |-> TRUE, cs |-> SetStatus(cs, id, Running)]
      [] op = "stop"    -> [ok |-> TRUE, cs |-> SetStatus(cs, id, Exited)]
      [] op = "restart" -> [ok |-> TRUE, cs |-> SetStatus(cs, id, Running)]
      [] op = "remove"  -> IF Get(cs, id).status = Running /\ ~force
                           THEN [ok |-> FALSE, cs |-> cs]
                           ELSE [ok |-> TRUE, cs |-> Delete(cs, id)]

\* container.remove() without force
RemoveUnforced == FALSE

\* line 99: container.remove(force=True)
RemoveForce == TRUE

\* lines 91-99: the four buttons; none of the calls is inside a try
Buttons ==
    /\ pc = "buttons"
    /\ \/ /\ pc' = "stats"
          /\ result' = NoResult
          /\ apiCall' = NoCall
          /\ UNCHANGED <<engContainers, clicked, uncaught, removedOk>>
       \/ \E op \in Lifecycle :
            /\ ~clicked
            /\ clicked' = TRUE
            /\ apiCall' = Sent(client, op, container)
            /\ IF ApiFault(client) # "" \/ ~Exists(engContainers, container)
               THEN /\ EndPass(op)
                    /\ result' = NoResult
                    /\ UNCHANGED <<engContainers, removedOk>>
               ELSE LET r == EngineApply(engContainers, op, container, RemoveForce) IN
                    IF r.ok
                    THEN /\ engContainers' = r.cs
                         /\ result' = [intent |-> op, res |-> "ok"]
                         /\ removedOk' = IF op = "remove"
                                         THEN removedOk \cup {container}
                                         ELSE removedOk
                         /\ pc' = "stats"
                         /\ UNCHANGED uncaught
                    ELSE /\ EndPass(op)
                         /\ result' = NoResult
                         /\ UNCHANGED <<engContainers, removedOk>>
    /\ sshCall' = NoSsh
    /\ connectCall' = NoConnect
    /\ view' = "none"
    /\ UNCHANGED <<reach, engImages, nextId, cache, connUri, mode, client,
                   containers, search, filtered, container, images,
                   returned, reachRet>>

\* lines 101-106: container.stats(stream=False) on the selected container.
\* The sample of a container that is not running has no memory usage entry,
\* and stats["memory_stats"]["usage"] raises KeyError.  `container` is not
\* read after line 103 and is cleared here.
LiveStats ==
    /\ pc = "stats"
    /\ container' = 0
    /\ \/ /\ pc' = "create"
          /\ result' = NoResult
          /\ apiCall' = NoCall
          /\ UNCHANGED uncaught
       \/ /\ apiCall' = Sent(client, "stats", container)
          /\ IF \/ ApiFault(client) # ""
                \/ ~Exists(engContainers, container)
                \/ Get(engContainers, container).status # Running
             THEN /\ EndPass("stats")
                  /\ result' = NoResult
             ELSE /\ result' = [intent |-> "fetch_stats", res |-> "ok"]
                  /\ pc' = "create"
                  /\ UNCHANGED uncaught
    /\ sshCall' = NoSsh
    /\ connectCall' = NoConnect
    /\ view' = "none"
    /\ UNCHANGED <<engineVars, cache, connUri, mode, client, clicked, containers,
                   search, filtered, images, histVars>>

HasImage(imgs, t) == \E j \in DOMAIN imgs : imgs[j] = t
AddImage(imgs, t) == IF HasImage(imgs, t) THEN imgs ELSE <<t>> \o imgs

\* lines 111-120: client.containers.run(img, cmd or None, detach=True) inside
\* try/except Exception; an image that is not local is pulled first.
CreateAndRun ==
    /\ pc = "create"
    /\ pc' = "images"
    /\ \/ /\ result' = NoResult
          /\ apiCall' = NoCall
          /\ UNCHANGED <<engContainers, engImages, nextId, clicked>>
       \/ \E img \in ImageInputs :
            /\ ~clicked
            /\ nextId <= MaxContainers
            /\ clicked' = TRUE
            /\ apiCall' = Sent(client, "create_and_run", 0)
            /\ IF ApiFault(client) # ""
                  \/ (~HasImage(engImages, img) /\ img \notin Registry)
               THEN /\ result' = [intent |-> "create_and_run", res |-> "error"]
                    /\ UNCHANGED <<engContainers, engImages, nextId>>
               ELSE /\ engImages' = AddImage(engImages, img)
                    /\ engContainers' =
                         <<[id |-> nextId, name |-> AutoName(nextId),
                            status |-> Running, image |-> img]>> \o engContainers
                    /\ nextId' = nextId + 1
                    /\ result' = [intent |-> "create_and_run", res |-> "ok"]
    /\ sshCall' = NoSsh
    /\ connectCall' = NoConnect
    /\ view' = "none"
    /\ UNCHANGED <<reach, cache, connUri, mode, client, containers, search,
                   filtered, container, images, uncaught, histVars>>

\* line 127
FilterImages(imgs, s) ==
    IF s # << >> THEN SelectSeq(imgs, LAMBDA t : Contains(s, t)) ELSE imgs

\* An image is in use when a running container was started from it; the
\* engine refuses to delete it even when forced.
InUse(cs, t) == \E i \in DOMAIN cs : cs[i].image = t /\ cs[i].status = Running

\* lines 123-136: the listing, and one Remove button per listed image with
\* client.images.remove(img.id, force=True) inside try/except Exception
Images ==
    /\ pc = "images"
    /\ IF IsTcp(mode)
       THEN /\ apiCall' = Sent(client, "list_images", 0)
            /\ IF ApiFault(client) # ""
               THEN /\ EndPass("list_images")
                    /\ result' = NoResult
                    /\ UNCHANGED <<images, engImages, clicked>>
               ELSE /\ images' = engImages
                    /\ pc' = "pull"
                    /\ UNCHANGED uncaught
                    /\ \E s \in ImageSearches :
                       LET filtered_img == FilterImages(images', s) IN
                       \/ result' = NoResult /\ UNCHANGED <<engImages, clicked>>
                       \/ \E i \in DOMAIN filtered_img :
                            /\ ~clicked
                            /\ clicked' = TRUE
                            /\ IF InUse(engContainers, filtered_img[i])
                               THEN /\ result' = [intent |-> "remove_image", res |-> "error"]
                                    /\ UNCHANGED engImages
                               ELSE /\ result' = [intent |-> "remove_image", res |-> "ok"]
                                    /\ engImages' = SelectSeq(engImages,
                                                      LAMBDA t : t # filtered_img[i])
       ELSE /\ images' = << >>
            /\ pc' = "pull"
            /\ apiCall' = NoCall
            /\ result' = NoResult
            /\ UNCHANGED <<uncaught, engImages, clicked>>
    /\ sshCall' = NoSsh
    /\ connectCall' = NoConnect
    /\ view' = "none"
    /\ UNCHANGED <<reach, engContainers, nextId, cache, connUri, mode, client,
                   containers, search, filtered, container, histVars>>

\* lines 138-145: client.images.pull(new_image) inside try/except Exception.
\* `images` is not read after line 129 and is cleared here.
PullImage ==
    /\ pc = "pull"
    /\ pc' = "logs"
    /\ images' = << >>
    /\ \/ /\ result' = NoResult
          /\ apiCall' = NoCall
          /\ UNCHANGED <<engImages, clicked>>
       \/ \E new_image \in ImageInputs :
            /\ ~clicked
            /\ clicked' = TRUE
            /\ apiCall' = Sent(client, "pull_image", 0)
            /\ IF ApiFault(client) # "" \/ new_image \notin Registry
               THEN /\ result' = [intent |-> "pull_image", res |-> "error"]
                    /\ UNCHANGED engImages
               ELSE /\ result' = [intent |-> "pull_image", res |-> "ok"]
                    /\ engImages' = AddImage(engImages, new_image)
    /\ sshCall' = NoSsh
    /\ connectCall' = NoConnect
    /\ view' = "none"
    /\ UNCHANGED <<reach, engContainers, nextId, cache, connUri, mode, client,
                   containers, search, filtered, container, uncaught, histVars>>

\* line 151 and 163: next(cc for cc in containers if cc.name == chosen)
ByName(cs, name) == cs[CHOOSE i \in DOMAIN cs :
                        /\ cs[i].name = name
                        /\ \A j \in 1..(i - 1) : cs[j].name # name]

\* lines 147-157: c.logs(tail=50) on a container of the pass's listing
Logs ==
    /\ pc = "logs"
    /\ IF IsTcp(mode) /\ containers # << >>
       THEN \E k \in DOMAIN containers :
            LET c == ByName(containers, containers[k].name) IN
            /\ apiCall' = Sent(client, "logs", c.id)
            /\ IF ApiFault(client) # "" \/ ~Exists(engContainers, c.id)
               THEN /\ EndPass("logs")
                    /\ view' = "none"
                    /\ UNCHANGED clicked
               ELSE /\ view' = "logs shown"
                    /\ pc' = "exec"
                    /\ UNCHANGED uncaught
                    /\ \/ UNCHANGED clicked
                       \/ ~clicked /\ clicked' = TRUE  \* Download Logs
       ELSE /\ view' = "logs unavailable"
            /\ pc' = "exec"
            /\ apiCall' = NoCall
            /\ UNCHANGED <<uncaught, clicked>>
    /\ result' = NoResult
    /\ sshCall' = NoSsh
    /\ connectCall' = NoConnect
    /\ UNCHANGED <<engineVars, cache, connUri, mode, client, containers, search,
                   filtered, container, images, histVars>>

\* lines 159-170: exec_create and exec_start, not inside a try.  The engine
\* refuses exec_create for a container that is not running.
Exec ==
    /\ pc = "exec"
    /\ IF IsTcp(mode) /\ containers # << >>
       THEN \E k \in DOMAIN containers :
            LET c == ByName(containers, containers[k].name) IN
            /\ view' = "exec form"
            /\ \/ /\ EndPass(uncaught)
                  /\ result' = NoResult
                  /\ apiCall' = NoCall
                  /\ UNCHANGED clicked
               \/ /\ ~clicked
                  /\ clicked' = TRUE
                  /\ apiCall' = Sent(client, "exec", c.id)
                  /\ IF \/ ApiFault(client) # ""
                        \/ ~Exists(engContainers, c.id)
                        \/ Get(engContainers, c.id).status # Running
                     THEN /\ EndPass("exec")
                          /\ result' = NoResult
                     ELSE /\ result' = [intent |-> "exec_in_container", res |-> "ok"]
                          /\ EndPass(uncaught)
       ELSE /\ view' = "exec unavailable"
            /\ EndPass(uncaught)
            /\ result' = NoResult
            /\ apiCall' = NoCall
            /\ UNCHANGED clicked
    /\ sshCall' = NoSsh
    /\ connectCall' = NoConnect
    /\ UNCHANGED <<engineVars, cache, connUri, mode, client, containers, search,
                   filtered, container, images, histVars>>

Next ==
    \/ \E u \in URIs : EngineFlip(u)
    \/ \E id \in 1..MaxContainers : ContainerExits(id)
    \/ BeginPass
    \/ Return
    \/ ConnectTcp
    \/ ConnectSsh
    \/ ListContainers
    \/ SelectContainer
    \/ Buttons
    \/ LiveStats
    \/ CreateAndRun
    \/ Images
    \/ PullImage
    \/ Logs
    \/ Exec

Spec == Init /\ [][Next]_vars


\* ------------------------------------------------------------------ claims
Connections == DOMAIN connUri
ClientsFor(u) == {k \in Connections : connUri[k] = u}

\* C1: calls of get_docker_client_via_tcp made while their URI is reachable
\* all return one object per URI, a call served from the cache performs no
\* handshake and returns the cached object, at most one client is ever built
\* per URI, and no connection is returned for two different URIs.
C1_Memoized ==
    /\ \A u \in URIs : Cardinality(reachRet[u]) <= 1
    /\ \A u \in URIs : Cardinality(ClientsFor(u)) <= 1
    /\ connectCall.how = "cache" => connectCall.res = cache[connectCall.uri]
    /\ \A u, v \in URIs :
         u # v => (returned[u] \cap returned[v]) \cap Connections = {}
    /\ \A u \in URIs : returned[u] \cap Connections \subseteq ClientsFor(u)

\* a second call for a reachable URI is served its connection from the cache
\* while another URI holds a connection of its own
C1_Witness ==
    /\ connectCall.how = "cache"
    /\ connectCall.up
    /\ connectCall.res \in Connections
    /\ Len(connUri) = 2

\* C2: no exception of a mutating intent leaves main().
C2_MutatingCaught == uncaught \notin MutatingIntents

\* C3: without a connection (SSH mode, or no client object) no request is
\* sent to an engine, no dispatcher step ends the pass with an exception,
\* and Create & Run and Pull Image show an error.
C3_NoCallUnconnected ==
    /\ apiCall.op # "none" => mode = TCP /\ client \in Connections
    /\ client \notin Connections =>
         /\ uncaught \notin DispatcherSteps
         /\ pc \in {"idle", "connect", "done"} \/ mode = SSH
         /\ result.intent \in {"create_and_run", "pull_image"} => result.res = "error"

\* Create & Run pressed in SSH mode
C3_Witness ==
    /\ mode = SSH
    /\ client = Unbound
    /\ result = [intent |-> "create_and_run", res |-> "error"]

\* C4: a call of get_docker_client_via_tcp made while its URI is reachable
\* returns a connection, whatever happened for that URI before.
C4_FailureNotCached == \A u \in URIs : None \notin reachRet[u]

\* C5: run_ssh_command returns the output stream if it is not empty and the
\* error stream otherwise when the command ran, and the connection-error
\* message when the connection or the command raised; the pass goes on.
C5_SshResult ==
    sshCall.ran =>
        /\ sshCall.result =
             IF sshCall.connected /\ sshCall.exc = ""
             THEN IF sshCall.output # << >> THEN sshCall.output ELSE sshCall.error
             ELSE <<"SSH connection error: ", sshCall.exc>>
        /\ ~sshCall.connected => sshCall.result[1] = "SSH connection error: "
        /\ uncaught = "none"
        /\ pc = "list"

\* the command ran and wrote to both streams
C5_Witness ==
    /\ sshCall.ran
    /\ sshCall.connected
    /\ sshCall.exc = ""
    /\ sshCall.output # << >>
    /\ sshCall.error # << >>

\* list_containers(s) asked of the engine as it is now
list_containers(s) == Filter(engContainers, s)

\* C6: a lifecycle request that reaches the engine for an existing container
\* reports ok, and a container whose Remove reported ok is in no later
\* listing.
C6_LifecycleOk ==
    /\ (apiCall.op \in Lifecycle /\ apiCall.up /\ apiCall.status # "none") =>
          /\ result = [intent |-> apiCall.op, res |-> "ok"]
          /\ uncaught = "none"
    /\ removedOk \cap Ids(list_containers(<< >>)) = {}
    /\ pc = "panel" => removedOk \cap Ids(containers) = {}

\* a container the panel created was running when Remove reported ok
C6_Witness ==
    /\ result = [intent |-> "remove", res |-> "ok"]
    /\ apiCall.target = MaxContainers
    /\ apiCall.status = Running
    /\ apiCall.target \in removedOk

\* two characters that differ at most in case
SameLetter(c, d) == c = d \/ {c, d} = {"a", "A"} \/ {c, d} = {"b", "B"}
ContainsIgnoringCase(s, name) ==
    \E i \in 0..(Len(name) - Len(s)) :
        \A j \in 1..Len(s) : SameLetter(s[j], name[i + j])

\* C7: with an empty search the filtered list is the engine's listing, every
\* container in the engine's order; otherwise it is the sub-sequence of the
\* containers whose name contains the search text, case ignored.
C7_Filter ==
    pc = "panel" =>
        /\ apiCall.op = "list_containers" =>
              [i \in DOMAIN containers |-> containers[i].id] =
              [i \in DOMAIN engContainers |-> engContainers[i].id]
        /\ IF search = << >>
           THEN filtered = containers
           ELSE filtered =
                  SelectSeq(containers, LAMBDA c : ContainsIgnoringCase(search, c.name))

\* a search in capitals that keeps a mixed-case name and drops another name
C7_Witness ==
    /\ pc = "panel"
    /\ search = <<"A", "B">>
    /\ Len(filtered) = 1
    /\ Len(containers) = 2
    /\ filtered[1].name = <<"a", "B", "A">>

\* C8: Run Command on a container that is not running is not an uncaught
\* exception.
C8_ExecStoppedCaught ==
    (apiCall.op = "exec" /\ apiCall.up /\ apiCall.status = Exited) =>
        uncaught = "none"

\* C9: in SSH mode the container and image listings are empty, no request
\* is sent to an engine, and the Logs and Exec tabs say unavailable.
C9_ShellPassThrough ==
    mode = SSH =>
        /\ containers = << >>
        /\ images = << >>
        /\ apiCall = NoCall
        /\ pc = "exec" => view = "logs unavailable"
        /\ pc = "done" => view = "exec unavailable" /\ uncaught = "none"

\* an SSH pass ended while the engine holds containers and images
C9_Witness ==
    /\ mode = SSH
    /\ pc = "done"
    /\ view = "exec unavailable"
    /\ engContainers # << >>
    /\ engImages # << >>

\* C10: after Remove reported ok for a container, no later request names it.
C10_NoCallOnRemoved ==
    apiCall.op # "remove" => apiCall.target \notin removedOk

====
